---- MODULE Spec2Model ----
(***************************************************************************)
(* The outfit-history state machine of the virtual try-on App component    *)
(* (src/unnamed/part_000, the React component App).                       *)
(*                                                                         *)
(* State is the component's useState cells.  Every handler is one action;  *)
(* an async handler is split at its await: the part before the await is    *)
(* the request action, which records the values the closure captured, and  *)
(* the part after it is the completion action, which runs with the         *)
(* captured values and with functional updaters applied to the state as it *)
(* is at completion.  Array indices are 0-based as in the source; the      *)
(* sequence element of index i is outfitHistory[i + 1].                    *)
(***************************************************************************)
EXTENDS Integers, Sequences, FiniteSets, TLC

\* ---------------------------------------------------------------- bounds
NumGarments == 2
NumPoses == 3
NumBackgrounds == 2
NumModels == 1
MaxLayers == 4
MaxInFlight == 2
MaxSaved == 1
\* service requests issued over a run
MaxCalls == 3

Garments == 1..NumGarments
Poses == 0..(NumPoses - 1)
Backgrounds == 1..NumBackgrounds
Models == 1..NumModels

\* defaultBackgrounds[0].id
DefaultBackgroundId == 1
\* an id that defaultBackgrounds.find does not find
UnknownBackgroundId == 0

\* garment: WardrobeItem | null; an own property that is absent reads undefined
NullGarment == 0
UndefinedGarment == -1
HoleGarment == -2

\* ---------------------------------------------------------------- images
\* An image reference stands for what the picture shows: the model photo it
\* started from, the garments rendered onto it, the pose and the background.
NoImage == [m |-> 0, gs |-> <<>>, pose |-> 0, bg |-> 0]

BaseImage(m) == [m |-> m, gs |-> <<>>, pose |-> 0, bg |-> DefaultBackgroundId]

generateVirtualTryOnImage(base, g, bg) ==
    [m |-> base.m, gs |-> Append(base.gs, g), pose |-> base.pose, bg |-> bg]

generatePoseVariation(base, p, bg) ==
    [m |-> base.m, gs |-> base.gs, pose |-> p, bg |-> bg]

changeBackgroundImage(base, bg) ==
    [m |-> base.m, gs |-> base.gs, pose |-> base.pose, bg |-> bg]

\* ---------------------------------------------------------------- layers
\* poseImages is a JS object: its entries keep insertion order, and
\* Object.values(...)[0] is the first inserted one.
Layer(g, poseImages) == [garment |-> g, poseImages |-> poseImages]

\* an array slot that was never assigned (newHistory[i] = x past the end)
Hole == Layer(HoleGarment, <<>>)

PoseEntry(p, img) == [pose |-> p, img |-> img]

HasPose(poseImages, p) == \E i \in DOMAIN poseImages : poseImages[i].pose = p

PoseImage(poseImages, p) ==
    LET i == CHOOSE i \in DOMAIN poseImages : poseImages[i].pose = p
    IN  poseImages[i].img

\* Object.values(poseImages)[0]
FirstPoseImage(poseImages) ==
    IF Len(poseImages) = 0 THEN NoImage ELSE poseImages[1].img

\* poseImages[p] ?? Object.values(poseImages)[0]
PoseImageOrFirst(poseImages, p) ==
    IF HasPose(poseImages, p) THEN PoseImage(poseImages, p)
    ELSE FirstPoseImage(poseImages)

\* poseImages[p] = img: an existing key keeps its place, a new key goes last
SetPoseImage(poseImages, p, img) ==
    IF HasPose(poseImages, p)
    THEN [i \in DOMAIN poseImages |->
            IF poseImages[i].pose = p THEN PoseEntry(p, img) ELSE poseImages[i]]
    ELSE Append(poseImages, PoseEntry(p, img))

\* history[i], undefined (Hole) outside the array
LayerAt(h, i) == IF i + 1 \in DOMAIN h THEN h[i + 1] ELSE Hole

\* history.slice(0, n)
Slice(h, n) == SubSeq(h, 1, IF n < Len(h) THEN n ELSE Len(h))

\* newHistory[i] = layer on a copy of h: slots between the end and i are holes
AssignAt(h, i, layer) ==
    [k \in 1..(IF i + 1 > Len(h) THEN i + 1 ELSE Len(h)) |->
        IF k = i + 1 THEN layer ELSE IF k <= Len(h) THEN h[k] ELSE Hole]

BaseLayer(url) == Layer(NullGarment, <<PoseEntry(0, url)>>)

RemoveAt(s, i) == [k \in 1..(Len(s) - 1) |-> IF k < i THEN s[k] ELSE s[k + 1]]

\* the handler step a state was produced by, and how many entries (history
\* layers, cached pose images) that step discarded
Did(op) == [op |-> op, discarded |-> 0]
DidDiscarding(op, n) == [op |-> op, discarded |-> n]

\* ---------------------------------------------------------------- state
VARIABLES
    modelImageUrl,        \* NoImage is null
    outfitHistory,
    currentOutfitIndex,
    isLoading,
    error,                \* "none" is null
    currentPoseIndex,
    wardrobe,
    savedOutfits,
    currentBackgroundId,
    localStorage,         \* the value stored under SAVED_OUTFITS_KEY
    inflight,             \* the async handlers suspended at an await
    crashed,              \* a state updater threw while rendering: App is unmounted
    calls,                \* service requests issued so far
    last                  \* the handler step that produced this state

vars == <<modelImageUrl, outfitHistory, currentOutfitIndex, isLoading, error,
          currentPoseIndex, wardrobe, savedOutfits, currentBackgroundId,
          localStorage, inflight, crashed, calls, last>>

defaultWardrobe == <<1>>

Init ==
    /\ modelImageUrl = NoImage
    /\ outfitHistory = <<>>
    /\ currentOutfitIndex = 0
    /\ isLoading = FALSE
    /\ error = "none"
    /\ currentPoseIndex = 0
    /\ wardrobe = defaultWardrobe
    /\ savedOutfits = <<>>
    /\ currentBackgroundId = DefaultBackgroundId
    /\ localStorage = <<>>
    /\ inflight = <<>>
    /\ crashed = FALSE
    /\ calls = 0
    /\ last = Did("init")

\* ---------------------------------------------------------------- derived
\* faulty variant: the layers beyond the cursor count as active
activeOutfitLayers_WholeHistory == outfitHistory

activeOutfitLayers == Slice(outfitHistory, currentOutfitIndex + 1)

displayImageUrl ==
    IF Len(outfitHistory) = 0 THEN modelImageUrl
    ELSE LET currentLayer == LayerAt(outfitHistory, currentOutfitIndex)
         IN  IF currentLayer = Hole THEN modelImageUrl
             ELSE PoseImageOrFirst(currentLayer.poseImages, currentPoseIndex)

\* the StartScreen is rendered while modelImageUrl is null, the main view otherwise
StartScreenShown == ~crashed /\ modelImageUrl = NoImage
MainAppShown == ~crashed /\ modelImageUrl # NoImage

\* ---------------------------------------------------------------- handlers
handleModelFinalized(url) ==
    /\ StartScreenShown
    /\ modelImageUrl' = url
    /\ outfitHistory' = <<BaseLayer(url)>>
    /\ currentOutfitIndex' = 0
    /\ last' = Did("initialize")
    /\ UNCHANGED <<isLoading, error, currentPoseIndex, wardrobe, savedOutfits,
                   currentBackgroundId, localStorage, inflight, calls, crashed>>

handleStartOver ==
    /\ MainAppShown
    /\ modelImageUrl' = NoImage
    /\ outfitHistory' = <<>>
    /\ currentOutfitIndex' = 0
    /\ isLoading' = FALSE
    /\ error' = "none"
    /\ currentPoseIndex' = 0
    /\ wardrobe' = defaultWardrobe
    /\ currentBackgroundId' = DefaultBackgroundId
    /\ last' = Did("startOver")
    /\ UNCHANGED <<savedOutfits, localStorage, inflight, calls, crashed>>

\* what a handler's closure holds of the render it was created in
Captured ==
    [currentOutfitIndex |-> currentOutfitIndex, currentPoseIndex |-> currentPoseIndex,
     currentBackgroundId |-> currentBackgroundId]

\* the handler awaits a service call / the awaited call i returns
Suspend(call) ==
    /\ Len(inflight) < MaxInFlight
    /\ calls < MaxCalls
    /\ inflight' = Append(inflight, call)
    /\ calls' = calls + 1
Resume(i) == inflight' = RemoveAt(inflight, i) /\ UNCHANGED calls

\* faulty variant: the handler returns without clearing the busy flag
Finally_KeepsBusy == UNCHANGED isLoading

\* the finally block of an async handler: setIsLoading(false)
Finally == isLoading' = FALSE

\* wardrobe.find(item => item.id === g.id) ? wardrobe : [...wardrobe, g]
AddToWardrobe(w, g) ==
    IF \E i \in DOMAIN w : w[i] = g THEN w ELSE Append(w, g)

\* faulty variant: the layer after the cursor is never recognised
IsRedo_Never(nextLayer, g) == FALSE

\* nextLayer && nextLayer.garment?.id === garmentInfo.id
IsRedo(nextLayer, g) == nextLayer # Hole /\ nextLayer.garment = g

\* faulty variant: the fast path keeps the pose
Redo_KeepsPose ==
    /\ currentOutfitIndex' = currentOutfitIndex + 1
    /\ UNCHANGED currentPoseIndex

\* the fast path: the layer after the cursor is reused
Redo ==
    /\ currentOutfitIndex' = currentOutfitIndex + 1
    /\ currentPoseIndex' = 0

\* faulty variant: the new layer is appended without the slice
AppendLayer_NoTruncate(prevHistory, idx, newLayer) == Append(prevHistory, newLayer)

\* [...prevHistory.slice(0, idx + 1), newLayer]
AppendLayer(prevHistory, idx, newLayer) == Append(Slice(prevHistory, idx + 1), newLayer)

\* faulty variant: the catch block drops the layers beyond the cursor
GarmentSelectCatch_Truncates ==
    /\ error' = "Failed to apply garment"
    /\ outfitHistory' = Slice(outfitHistory, currentOutfitIndex + 1)
    /\ UNCHANGED <<currentOutfitIndex, wardrobe>>

\* the catch block of handleGarmentSelect
GarmentSelectCatch ==
    /\ error' = "Failed to apply garment"
    /\ UNCHANGED <<outfitHistory, currentOutfitIndex, wardrobe>>

\* handleGarmentSelect up to its await (lines 133-148)
handleGarmentSelect(g) ==
    /\ MainAppShown
    /\ IF displayImageUrl = NoImage \/ isLoading
       THEN /\ last' = Did("garmentDeclined")
            /\ UNCHANGED <<modelImageUrl, outfitHistory, currentOutfitIndex, isLoading,
                           error, currentPoseIndex, wardrobe, savedOutfits,
                           currentBackgroundId, localStorage, inflight, calls, crashed>>
       ELSE LET nextLayer == LayerAt(outfitHistory, currentOutfitIndex + 1)
            IN  IF IsRedo(nextLayer, g)
                THEN /\ Redo
                     /\ last' = Did("garmentRedo")
                     /\ UNCHANGED <<modelImageUrl, outfitHistory, isLoading, error,
                                    wardrobe, savedOutfits, currentBackgroundId,
                                    localStorage, inflight, calls, crashed>>
                ELSE /\ currentOutfitIndex + 2 <= MaxLayers
                     /\ Len(displayImageUrl.gs) + 1 < MaxLayers
                     /\ error' = "none"
                     /\ isLoading' = TRUE
                     /\ Suspend([op |-> "garment", garment |-> g, at |-> Captured,
                                 img |-> generateVirtualTryOnImage(
                                            displayImageUrl, g, currentBackgroundId)])
                     /\ last' = Did("garmentRequest")
                     /\ UNCHANGED <<modelImageUrl, outfitHistory, currentOutfitIndex,
                                    currentPoseIndex, wardrobe, savedOutfits,
                                    currentBackgroundId, localStorage, crashed>>

\* handleGarmentSelect after its await (lines 148-173): call i returns
GarmentSelectDone(i, ok) ==
    /\ ~crashed
    /\ i \in DOMAIN inflight
    /\ inflight[i].op = "garment"
    /\ LET call == inflight[i]
           newLayer == Layer(call.garment,
                             <<PoseEntry(call.at.currentPoseIndex, call.img)>>)
       IN  IF ok
           THEN /\ outfitHistory' =
                      AppendLayer(outfitHistory, call.at.currentOutfitIndex, newLayer)
                /\ currentOutfitIndex' = currentOutfitIndex + 1
                /\ wardrobe' = AddToWardrobe(wardrobe, call.garment)
                /\ last' = DidDiscarding("garmentOk",
                               Len(outfitHistory) + 1 - Len(outfitHistory'))
                /\ UNCHANGED error
           ELSE /\ GarmentSelectCatch
                /\ last' = Did("garmentFailed")
    /\ Finally
    /\ Resume(i)
    /\ UNCHANGED <<modelImageUrl, currentPoseIndex, savedOutfits, currentBackgroundId,
                   localStorage, crashed>>

\* faulty variant: removing the last garment also drops its layer
handleRemoveLastGarment_Truncates ==
    /\ MainAppShown
    /\ IF currentOutfitIndex > 0
       THEN /\ currentOutfitIndex' = currentOutfitIndex - 1
            /\ currentPoseIndex' = 0
            /\ outfitHistory' = Slice(outfitHistory, currentOutfitIndex)
            /\ last' = Did("remove")
       ELSE /\ last' = Did("removeNoop")
            /\ UNCHANGED <<currentOutfitIndex, currentPoseIndex, outfitHistory>>
    /\ UNCHANGED <<modelImageUrl, isLoading, error, wardrobe,
                   savedOutfits, currentBackgroundId, localStorage, inflight, calls,
                   crashed>>

handleRemoveLastGarment ==
    /\ MainAppShown
    /\ IF currentOutfitIndex > 0
       THEN /\ currentOutfitIndex' = currentOutfitIndex - 1
            /\ currentPoseIndex' = 0
            /\ last' = Did("remove")
       ELSE /\ last' = Did("removeNoop")
            /\ UNCHANGED <<currentOutfitIndex, currentPoseIndex>>
    /\ UNCHANGED <<modelImageUrl, outfitHistory, isLoading, error, wardrobe,
                   savedOutfits, currentBackgroundId, localStorage, inflight, calls, crashed>>

\* faulty variant: the cache is never consulted
IsCached_Never(currentLayer, newIndex) == FALSE

\* currentLayer.poseImages[poseInstruction] is set
IsCached(currentLayer, newIndex) == HasPose(currentLayer.poseImages, newIndex)

\* faulty variant: the catch block does not revert the pose
PoseSelectCatch_NoRevert(call) ==
    /\ error' = "Failed to change pose"
    /\ UNCHANGED currentPoseIndex

\* the catch block of handlePoseSelect
PoseSelectCatch(call) ==
    /\ error' = "Failed to change pose"
    /\ currentPoseIndex' = call.at.currentPoseIndex

\* handlePoseSelect up to its await (lines 183-205)
handlePoseSelect(newIndex) ==
    /\ MainAppShown
    /\ LET currentLayer == LayerAt(outfitHistory, currentOutfitIndex)
           Frame == UNCHANGED <<modelImageUrl, outfitHistory, currentOutfitIndex,
                                wardrobe, savedOutfits, currentBackgroundId,
                                localStorage, crashed>>
       IN  IF isLoading \/ Len(outfitHistory) = 0 \/ newIndex = currentPoseIndex
           THEN /\ last' = Did("poseDeclined")
                /\ Frame
                /\ UNCHANGED <<isLoading, error, currentPoseIndex, inflight, calls>>
           ELSE IF currentLayer = Hole
           \* currentLayer.poseImages throws a TypeError: the async handler's
           \* promise rejects, no state was set
           THEN /\ last' = Did("poseThrew")
                /\ Frame
                /\ UNCHANGED <<isLoading, error, currentPoseIndex, inflight, calls>>
           ELSE IF IsCached(currentLayer, newIndex)
           THEN /\ currentPoseIndex' = newIndex
                /\ last' = Did("poseCached")
                /\ Frame
                /\ UNCHANGED <<isLoading, error, inflight, calls>>
           ELSE IF FirstPoseImage(currentLayer.poseImages) = NoImage
           THEN /\ last' = Did("poseDeclined")
                /\ Frame
                /\ UNCHANGED <<isLoading, error, currentPoseIndex, inflight, calls>>
           ELSE /\ error' = "none"
                /\ isLoading' = TRUE
                /\ currentPoseIndex' = newIndex
                /\ Suspend([op |-> "pose", newIndex |-> newIndex, at |-> Captured,
                            img |-> generatePoseVariation(
                                       FirstPoseImage(currentLayer.poseImages),
                                       newIndex, currentBackgroundId)])
                /\ last' = Did("poseRequest")
                /\ Frame

\* handlePoseSelect after its await (lines 205-218): call i returns
PoseSelectDone(i, ok) ==
    /\ ~crashed
    /\ i \in DOMAIN inflight
    /\ inflight[i].op = "pose"
    /\ LET call == inflight[i]
           idx == call.at.currentOutfitIndex
           updatedLayer == LayerAt(outfitHistory, idx)
       IN  IF ok /\ updatedLayer = Hole
           \* updatedLayer.poseImages throws inside the state updater: React
           \* rethrows it while rendering and, with no error boundary, unmounts App
           THEN /\ crashed' = TRUE
                /\ last' = Did("poseCrashed")
                /\ UNCHANGED <<outfitHistory, currentPoseIndex, error>>
           ELSE IF ok
           THEN /\ outfitHistory' =
                      [outfitHistory EXCEPT ![idx + 1].poseImages =
                          SetPoseImage(@, call.newIndex, call.img)]
                /\ last' = Did("poseOk")
                /\ UNCHANGED <<currentPoseIndex, error, crashed>>
           ELSE /\ PoseSelectCatch(call)
                /\ last' = Did("poseFailed")
                /\ UNCHANGED <<outfitHistory, crashed>>
    /\ Finally
    /\ Resume(i)
    /\ UNCHANGED <<modelImageUrl, currentOutfitIndex, wardrobe, savedOutfits,
                   currentBackgroundId, localStorage>>

\* faulty variant: the new image is added to the layer's pose images, the others kept
ResetPoses_KeepsOthers(layer, pose, img) ==
    Layer(IF layer = Hole THEN UndefinedGarment ELSE layer.garment,
          SetPoseImage(layer.poseImages, pose, img))

\* updatedLayer.poseImages = { [currentPoseInstruction]: newImageUrl } on a copy
\* of the layer; the spread of undefined has no garment
ResetPoses(layer, pose, img) ==
    Layer(IF layer = Hole THEN UndefinedGarment ELSE layer.garment,
          <<PoseEntry(pose, img)>>)

\* faulty variant: the catch block keeps the optimistic background id
BackgroundChangeCatch_NoRevert(call) ==
    /\ error' = "Failed to change background"
    /\ UNCHANGED currentBackgroundId

\* the catch block of handleBackgroundChange
BackgroundChangeCatch(call) ==
    /\ error' = "Failed to change background"
    /\ currentBackgroundId' = call.at.currentBackgroundId

\* handleBackgroundChange up to its await (lines 221-243)
handleBackgroundChange(newBackgroundId) ==
    /\ MainAppShown
    /\ LET currentLayer == LayerAt(outfitHistory, currentOutfitIndex)
           baseImageForBgChange ==
               IF currentLayer = Hole THEN NoImage
               ELSE PoseImageOrFirst(currentLayer.poseImages, currentPoseIndex)
           Frame == UNCHANGED <<modelImageUrl, outfitHistory, currentOutfitIndex,
                                currentPoseIndex, wardrobe, savedOutfits,
                                localStorage, crashed>>
       IN  IF \/ newBackgroundId \notin Backgrounds
              \/ isLoading
              \/ currentBackgroundId = newBackgroundId
              \/ Len(outfitHistory) = 0
           THEN /\ last' = Did("backgroundDeclined")
                /\ Frame
                /\ UNCHANGED <<isLoading, error, currentBackgroundId, inflight, calls>>
           ELSE IF baseImageForBgChange = NoImage
           \* a TypeError or the "No valid base image" Error is thrown inside
           \* the try before the await: catch and finally run at once
           THEN /\ error' = "Failed to change background"
                /\ last' = Did("backgroundThrew")
                /\ Frame
                /\ UNCHANGED <<isLoading, currentBackgroundId, inflight, calls>>
           ELSE /\ error' = "none"
                /\ isLoading' = TRUE
                /\ currentBackgroundId' = newBackgroundId
                /\ Suspend([op |-> "background", at |-> Captured,
                            img |-> changeBackgroundImage(baseImageForBgChange,
                                                          newBackgroundId)])
                /\ last' = Did("backgroundRequest")
                /\ Frame

\* handleBackgroundChange after its await (lines 243-260): call i returns
BackgroundChangeDone(i, ok) ==
    /\ ~crashed
    /\ i \in DOMAIN inflight
    /\ inflight[i].op = "background"
    /\ LET call == inflight[i]
           idx == call.at.currentOutfitIndex
           old == LayerAt(outfitHistory, idx)
           updatedLayer == ResetPoses(old, call.at.currentPoseIndex, call.img)
       IN  IF ok
           THEN /\ outfitHistory' = AssignAt(outfitHistory, idx, updatedLayer)
                /\ last' = DidDiscarding("backgroundOk",
                               Cardinality({k \in DOMAIN old.poseImages :
                                   old.poseImages[k].pose # call.at.currentPoseIndex}))
                /\ UNCHANGED <<error, currentBackgroundId>>
           ELSE /\ BackgroundChangeCatch(call)
                /\ last' = Did("backgroundFailed")
                /\ UNCHANGED outfitHistory
    /\ Finally
    /\ Resume(i)
    /\ UNCHANGED <<modelImageUrl, currentOutfitIndex, currentPoseIndex, wardrobe,
                   savedOutfits, localStorage, crashed>>

\* a SavedOutfit; Date.now() is later than the id of every outfit saved before
SavedOutfit(id, name, thumbnailUrl, layers) ==
    [id |-> id, name |-> name, thumbnailUrl |-> thumbnailUrl, layers |-> layers]

DateNow ==
    IF Len(savedOutfits) = 0 THEN 1
    ELSE 1 + CHOOSE n \in {savedOutfits[i].id : i \in DOMAIN savedOutfits} :
                 \A i \in DOMAIN savedOutfits : savedOutfits[i].id <= n

\* layers.map(layer => layer.garment): a hole stays a hole
GarmentsOf(layers) == [i \in DOMAIN layers |-> layers[i].garment]

\* handleSaveOutfit (lines 263-286); stored: localStorage.setItem did not throw
handleSaveOutfit(stored) ==
    /\ MainAppShown
    /\ IF Len(activeOutfitLayers) <= 1 \/ displayImageUrl = NoImage
       THEN /\ last' = Did("saveDeclined")
            /\ UNCHANGED <<savedOutfits, localStorage, error>>
       ELSE /\ Len(savedOutfits) < MaxSaved
            /\ LET newSavedOutfit ==
                       SavedOutfit(DateNow, Len(savedOutfits) + 1, displayImageUrl,
                                   GarmentsOf(activeOutfitLayers))
                   updatedOutfits == Append(savedOutfits, newSavedOutfit)
               IN  /\ savedOutfits' = updatedOutfits
                   /\ IF stored
                      THEN /\ localStorage' = updatedOutfits
                           /\ last' = Did("saved")
                           /\ UNCHANGED error
                      ELSE /\ error' = "Could not save outfit. Storage might be full."
                           /\ last' = Did("saveNotStored")
                           /\ UNCHANGED localStorage
    /\ UNCHANGED <<modelImageUrl, outfitHistory, currentOutfitIndex, isLoading,
                   currentPoseIndex, wardrobe, currentBackgroundId, inflight, calls,
                   crashed>>

\* prev.filter(outfit => outfit.id !== idToDelete)
WithoutId(outfits, id) ==
    LET F[k \in 0..Len(outfits)] ==
            IF k = 0 THEN <<>>
            ELSE IF outfits[k].id = id THEN F[k - 1] ELSE Append(F[k - 1], outfits[k])
    IN  F[Len(outfits)]

\* handleDeleteOutfit (lines 288-298); its button is disabled while isLoading
handleDeleteOutfit(idToDelete, stored) ==
    /\ MainAppShown
    /\ ~isLoading
    /\ LET updatedOutfits == WithoutId(savedOutfits, idToDelete)
       IN  /\ savedOutfits' = updatedOutfits
           /\ localStorage' = IF stored THEN updatedOutfits ELSE localStorage
    /\ last' = Did("deleted")
    /\ UNCHANGED <<modelImageUrl, outfitHistory, currentOutfitIndex, isLoading, error,
                   currentPoseIndex, wardrobe, currentBackgroundId, inflight, calls,
                   crashed>>

\* faulty variant: the filter also drops the first garment
GarmentsToApply_SkipsFirst(layers) ==
    LET F[k \in 0..Len(layers)] ==
            IF k = 0 THEN <<>>
            ELSE IF layers[k] \in {NullGarment, HoleGarment} \/ k = 2 THEN F[k - 1]
                 ELSE Append(F[k - 1], layers[k])
    IN  F[Len(layers)]

\* outfitToLoad.layers.filter(l => l !== null): filter skips holes too
GarmentsToApply(layers) ==
    LET F[k \in 0..Len(layers)] ==
            IF k = 0 THEN <<>>
            ELSE IF layers[k] \in {NullGarment, HoleGarment} THEN F[k - 1]
                 ELSE Append(F[k - 1], layers[k])
    IN  F[Len(layers)]

\* handleLoadOutfit up to its first await (lines 300-320)
handleLoadOutfit(outfitToLoad) ==
    /\ MainAppShown
    /\ IF isLoading \/ modelImageUrl = NoImage
       THEN /\ last' = Did("loadDeclined")
            /\ UNCHANGED <<outfitHistory, currentOutfitIndex, isLoading, error,
                           currentPoseIndex, currentBackgroundId, inflight, calls>>
       ELSE LET garmentsToApply == GarmentsToApply(outfitToLoad.layers)
                newHistory == <<BaseLayer(modelImageUrl)>>
            IN  /\ currentBackgroundId' = DefaultBackgroundId
                /\ IF Len(garmentsToApply) = 0
                   \* the loop body never runs: the handler finishes without awaiting
                   THEN /\ error' = "none"
                        /\ outfitHistory' = newHistory
                        /\ currentOutfitIndex' = Len(newHistory) - 1
                        /\ currentPoseIndex' = 0
                        /\ last' = Did("loadOk")
                        /\ UNCHANGED <<isLoading, inflight, calls>>
                   ELSE IF garmentsToApply[1] = UndefinedGarment
                   \* garment.name throws a TypeError before the first await
                   THEN /\ error' = "Failed to load outfit"
                        /\ last' = Did("loadThrew")
                        /\ UNCHANGED <<outfitHistory, currentOutfitIndex, isLoading,
                                       currentPoseIndex, inflight, calls>>
                   ELSE /\ error' = "none"
                        /\ isLoading' = TRUE
                        /\ Suspend([op |-> "load", at |-> Captured,
                                    layers |-> outfitToLoad.layers,
                                    garmentsToApply |-> garmentsToApply,
                                    newHistory |-> newHistory,
                                    currentImageUrl |-> modelImageUrl])
                        /\ last' = Did("loadRequest")
                        /\ UNCHANGED <<outfitHistory, currentOutfitIndex,
                                       currentPoseIndex>>
    /\ UNCHANGED <<modelImageUrl, wardrobe, savedOutfits, localStorage, crashed>>

\* faulty variant: the catch block commits the layers rendered so far
LoadOutfitCatch_KeepsPartial(call) ==
    /\ error' = "Failed to load outfit"
    /\ outfitHistory' = call.newHistory
    /\ currentOutfitIndex' = Len(call.newHistory) - 1
    /\ currentPoseIndex' = 0

\* the catch block of handleLoadOutfit: newHistory is a local that is dropped
LoadOutfitCatch(call) ==
    /\ error' = "Failed to load outfit"
    /\ UNCHANGED <<outfitHistory, currentOutfitIndex, currentPoseIndex>>

\* faulty variant: every garment is rendered onto the base model image
LoadOutfitRender_OnBase(call, garment) ==
    generateVirtualTryOnImage(call.newHistory[1].poseImages[1].img, garment,
                              DefaultBackgroundId)

\* generateVirtualTryOnImage(currentImageUrl, garmentFile, defaultBackgrounds[0].prompt)
LoadOutfitRender(call, garment) ==
    generateVirtualTryOnImage(call.currentImageUrl, garment, DefaultBackgroundId)

\* handleLoadOutfit from one await to the next or to its end (lines 320-341):
\* the urlToFile and generateVirtualTryOnImage calls of loop round i return
\* (ok), or one of them throws
LoadOutfitStep(i, ok) ==
    /\ ~crashed
    /\ i \in DOMAIN inflight
    /\ inflight[i].op = "load"
    /\ LET call == inflight[i]
           done == Len(call.newHistory) - 1
           garment == call.garmentsToApply[done + 1]
           newImageUrl == LoadOutfitRender(call, garment)
           newHistory == Append(call.newHistory,
                                Layer(garment, <<PoseEntry(0, newImageUrl)>>))
           Finished == Finally /\ Resume(i)
       IN  IF ~ok
           THEN /\ LoadOutfitCatch(call)
                /\ last' = DidDiscarding("loadFailed", done)
                /\ Finished
           ELSE IF done + 1 = Len(call.garmentsToApply)
           THEN /\ outfitHistory' = newHistory
                /\ currentOutfitIndex' = Len(newHistory) - 1
                /\ currentPoseIndex' = 0
                /\ last' = Did("loadOk")
                /\ Finished
                /\ UNCHANGED error
           ELSE IF call.garmentsToApply[done + 2] = UndefinedGarment
           \* garment.name throws a TypeError at the top of the next round
           THEN /\ LoadOutfitCatch(call)
                /\ last' = DidDiscarding("loadFailed", done + 1)
                /\ Finished
           ELSE /\ inflight' = [inflight EXCEPT ![i] =
                                   [call EXCEPT !.newHistory = newHistory,
                                                !.currentImageUrl = newImageUrl]]
                /\ last' = Did("loadStep")
                /\ UNCHANGED <<outfitHistory, currentOutfitIndex, currentPoseIndex,
                               isLoading, error, calls>>
    /\ UNCHANGED <<modelImageUrl, wardrobe, savedOutfits, currentBackgroundId,
                   localStorage, crashed>>

Next ==
    \/ \E m \in Models : handleModelFinalized(BaseImage(m))
    \/ handleStartOver
    \/ \E g \in Garments : handleGarmentSelect(g)
    \/ \E i \in 1..MaxInFlight, ok \in BOOLEAN : GarmentSelectDone(i, ok)
    \/ handleRemoveLastGarment
    \/ \E p \in Poses : handlePoseSelect(p)
    \/ \E i \in 1..MaxInFlight, ok \in BOOLEAN : PoseSelectDone(i, ok)
    \/ \E b \in Backgrounds \cup {UnknownBackgroundId} : handleBackgroundChange(b)
    \/ \E i \in 1..MaxInFlight, ok \in BOOLEAN : BackgroundChangeDone(i, ok)
    \/ \E stored \in BOOLEAN : handleSaveOutfit(stored)
    \/ \E k \in 1..MaxSaved, stored \in BOOLEAN :
          k \in DOMAIN savedOutfits /\ handleDeleteOutfit(savedOutfits[k].id, stored)
    \/ \E k \in 1..MaxSaved :
          k \in DOMAIN savedOutfits /\ handleLoadOutfit(savedOutfits[k])
    \/ \E i \in 1..MaxInFlight, ok \in BOOLEAN : LoadOutfitStep(i, ok)

Spec == Init /\ [][Next]_vars

\* a service call that is awaited returns, with a result or an exception
ServiceReturns ==
    \E i \in 1..MaxInFlight, ok \in BOOLEAN :
        \/ GarmentSelectDone(i, ok)
        \/ PoseSelectDone(i, ok)
        \/ BackgroundChangeDone(i, ok)
        \/ LoadOutfitStep(i, ok)

\* every awaited service call eventually returns
LiveSpec == Init /\ [][Next]_vars /\ WF_vars(ServiceReturns)

\* ---------------------------------------------------------------- claims
Idle == ~isLoading /\ Len(inflight) = 0

\* the pose images of layer i of history h
PoseImagesAt(h, i) == LayerAt(h, i).poseImages

\* every layer of h2 other than layer i is the layer of h it was
OtherLayersKept(h, h2, i) ==
    /\ Len(h2) = Len(h)
    /\ \A k \in DOMAIN h : k # i + 1 => h2[k] = h[k]

\* call i is the only call in flight, the busy flag it set is still set and
\* the cursor is where it was when the call was issued: no Start Over and no
\* effective removeLastGarment ran in between
RunsAlone(i) ==
    /\ Len(inflight) = 1
    /\ i = 1
    /\ isLoading
    /\ currentOutfitIndex = inflight[i].at.currentOutfitIndex

\* C1: whenever the history is non-empty, 0 <= cursor < length(history) and
\* the first layer has no garment.
C1_CursorInHistory ==
    Len(outfitHistory) > 0 =>
        /\ 0 <= currentOutfitIndex
        /\ currentOutfitIndex < Len(outfitHistory)
        /\ outfitHistory[1].garment = NullGarment

\* C2: at most one mutating operation has a service call in flight.
C2_AtMostOneInFlight == Len(inflight) <= 1

\* C3: a slow-path applyGarment issued with the cursor c on a layer of the
\* history (the history has its first c+1 layers) that succeeds with nothing
\* run in between leaves those c+1 layers followed by exactly one new layer
\* {garment, {active pose: result}}, and the cursor on that last layer.
C3_ApplyTruncatesAndAppends ==
    [][\A i \in 1..MaxInFlight :
         (/\ GarmentSelectDone(i, TRUE)
          /\ RunsAlone(i)
          /\ currentOutfitIndex < Len(outfitHistory)) =>
            /\ outfitHistory' =
                 Append(SubSeq(outfitHistory, 1, currentOutfitIndex + 1),
                        Layer(inflight[i].garment,
                              <<PoseEntry(currentPoseIndex, inflight[i].img)>>))
            /\ currentOutfitIndex' = currentOutfitIndex + 1
            /\ currentOutfitIndex' = Len(outfitHistory') - 1]_vars

C3_Witness ==
    /\ last.op = "garmentOk"
    /\ last.discarded > 0
    /\ Idle
    /\ currentOutfitIndex = Len(outfitHistory) - 1

\* C4 as claimed: after every successful applyGarment, slow path or redo,
\* activePoseIndex is 0.
C4_PoseIsZeroAfterApply ==
    last.op \in {"garmentOk", "garmentRedo"} => currentPoseIndex = 0

\* C4 as amended: the redo fast path sets activePoseIndex to 0; the completion
\* of a slow path leaves activePoseIndex as it is, and files the new image
\* under the pose that was active when the garment was selected.
C4_PoseAfterApply ==
    [][/\ last'.op = "garmentRedo" => currentPoseIndex' = 0
       /\ \A i \in 1..MaxInFlight :
            GarmentSelectDone(i, TRUE) =>
               /\ currentPoseIndex' = currentPoseIndex
               /\ PoseImagesAt(outfitHistory', Len(outfitHistory') - 1) =
                     <<PoseEntry(inflight[i].at.currentPoseIndex, inflight[i].img)>>]_vars

C4_Witness ==
    /\ last.op = "garmentOk"
    /\ Idle
    /\ currentPoseIndex # 0
    /\ HasPose(PoseImagesAt(outfitHistory, currentOutfitIndex), currentPoseIndex)

\* C5: neither the request nor the failure of applyGarment's service call
\* changes history, cursor, pose, background or wardrobe; the failure clears
\* the busy flag and surfaces an error.
C5_ApplyFailureChangesNothing ==
    [][/\ last'.op \in {"garmentRequest", "garmentFailed"} =>
            UNCHANGED <<outfitHistory, currentOutfitIndex, currentPoseIndex,
                        currentBackgroundId, wardrobe>>
       /\ last'.op = "garmentFailed" => (~isLoading' /\ error' # "none")]_vars

C5_Witness ==
    /\ last.op = "garmentFailed"
    /\ Len(outfitHistory) > currentOutfitIndex + 1
    /\ error = "Failed to apply garment"
    /\ Idle

\* C6: after removeLastGarment, applyGarment with the garment of the layer
\* just left goes back to that layer: cursor + 1, the history untouched, no
\* service call; so the pair restores history and cursor.  Every redo step
\* advances the cursor by exactly one, onto an existing layer, with no call.
C6_UndoRedoRoundTrip ==
    [][/\ handleRemoveLastGarment /\ currentOutfitIndex > 0 =>
            /\ currentOutfitIndex' = currentOutfitIndex - 1
            /\ outfitHistory' = outfitHistory
       /\ \A g \in Garments :
            (/\ last.op = "remove"
             /\ ~isLoading
             /\ LayerAt(outfitHistory, currentOutfitIndex + 1).garment = g
             /\ handleGarmentSelect(g)) =>
                /\ last'.op = "garmentRedo"
                /\ currentOutfitIndex' = currentOutfitIndex + 1
                /\ UNCHANGED <<outfitHistory, inflight, calls, isLoading>>
       /\ last'.op = "garmentRedo" =>
            /\ currentOutfitIndex' = currentOutfitIndex + 1
            /\ currentOutfitIndex' <= Len(outfitHistory) - 1
            /\ UNCHANGED <<outfitHistory, inflight, calls, isLoading>>]_vars

\* one call was ever issued, so the layer redone is the one removeLastGarment left
C6_Witness ==
    /\ last.op = "garmentRedo"
    /\ Idle
    /\ calls = 1
    /\ Len(outfitHistory) = 2
    /\ currentOutfitIndex = 1

\* C7: removeLastGarment with cursor > 0 decrements the cursor and sets the
\* pose to 0, with cursor = 0 it changes neither; it never changes the
\* history, the background or the busy flag and issues no service call.
C7_RemoveLastGarmentEffect ==
    [][handleRemoveLastGarment =>
          /\ IF currentOutfitIndex > 0
             THEN /\ currentOutfitIndex' = currentOutfitIndex - 1
                  /\ currentPoseIndex' = 0
             ELSE UNCHANGED <<currentOutfitIndex, currentPoseIndex>>
          /\ UNCHANGED <<outfitHistory, currentBackgroundId, isLoading, inflight,
                         calls>>]_vars

C7_Witness ==
    /\ last.op = "remove"
    /\ currentOutfitIndex = 0
    /\ currentPoseIndex = 0
    /\ Len(outfitHistory) = 3
    /\ Len(PoseImagesAt(outfitHistory, 1)) = 1
    /\ HasPose(PoseImagesAt(outfitHistory, 1), 1)

\* C8: selectPose of a pose the active layer already holds an image for
\* issues no service call and changes nothing but activePoseIndex, which it
\* sets to the new index (it is declined while busy).
C8_CachedPoseIssuesNoCall ==
    [][\A p \in Poses :
         (/\ handlePoseSelect(p)
          /\ HasPose(PoseImagesAt(outfitHistory, currentOutfitIndex), p)) =>
             /\ UNCHANGED <<outfitHistory, currentOutfitIndex, currentBackgroundId,
                            isLoading, inflight, calls>>
             /\ currentPoseIndex' = IF isLoading THEN currentPoseIndex ELSE p]_vars

C8_Witness ==
    /\ last.op = "poseCached"
    /\ Idle
    /\ currentPoseIndex = 1
    /\ Len(PoseImagesAt(outfitHistory, currentOutfitIndex)) = 3

\* C9: selectPose on a cache miss issues exactly one service call and shows
\* the new index at once.  On success the layer it was invoked on gains
\* exactly the new key, its earlier entries and all other layers kept; run
\* alone, that layer is the active one and activePoseIndex is the new index.
\* On failure activePoseIndex is the value from before the call, the history
\* is untouched and an error is set.
C9_PoseMiss ==
    [][/\ \A p \in Poses :
            (/\ handlePoseSelect(p)
             /\ ~isLoading
             /\ p # currentPoseIndex
             /\ LayerAt(outfitHistory, currentOutfitIndex) # Hole
             /\ ~HasPose(PoseImagesAt(outfitHistory, currentOutfitIndex), p)) =>
                /\ calls' = calls + 1
                /\ Len(inflight') = Len(inflight) + 1
                /\ currentPoseIndex' = p
                /\ UNCHANGED <<outfitHistory, currentOutfitIndex>>
       /\ \A i \in 1..MaxInFlight :
            /\ (/\ PoseSelectDone(i, TRUE)
                /\ LayerAt(outfitHistory, inflight[i].at.currentOutfitIndex) # Hole
                /\ ~HasPose(PoseImagesAt(outfitHistory,
                                         inflight[i].at.currentOutfitIndex),
                            inflight[i].newIndex)) =>
                   LET idx == inflight[i].at.currentOutfitIndex
                   IN  /\ PoseImagesAt(outfitHistory', idx) =
                            Append(PoseImagesAt(outfitHistory, idx),
                                   PoseEntry(inflight[i].newIndex, inflight[i].img))
                       /\ LayerAt(outfitHistory', idx).garment =
                            LayerAt(outfitHistory, idx).garment
                       /\ OtherLayersKept(outfitHistory, outfitHistory', idx)
                       /\ UNCHANGED <<currentPoseIndex, calls>>
            /\ (PoseSelectDone(i, TRUE) /\ RunsAlone(i)) =>
                   /\ ~HasPose(PoseImagesAt(outfitHistory, currentOutfitIndex),
                               inflight[i].newIndex)
                   /\ HasPose(PoseImagesAt(outfitHistory', currentOutfitIndex'),
                              inflight[i].newIndex)
                   /\ currentPoseIndex' = inflight[i].newIndex
                   /\ ~crashed'
            /\ PoseSelectDone(i, FALSE) =>
                   /\ currentPoseIndex' = inflight[i].at.currentPoseIndex
                   /\ outfitHistory' = outfitHistory
                   /\ error' # "none"
                   /\ UNCHANGED calls
            /\ (PoseSelectDone(i, FALSE) /\ RunsAlone(i)) =>
                   /\ currentPoseIndex = inflight[i].newIndex
                   /\ currentPoseIndex' # inflight[i].newIndex]_vars

C9_Witness ==
    /\ last.op = "poseFailed"
    /\ Idle
    /\ currentPoseIndex = 1
    /\ ~HasPose(PoseImagesAt(outfitHistory, currentOutfitIndex), 2)
    /\ Len(PoseImagesAt(outfitHistory, currentOutfitIndex)) = 2
    /\ error = "Failed to change pose"

\* C10: a successful changeBackground leaves the layer it was invoked on with
\* exactly one pose image, the newly rendered one, filed under the pose it
\* was invoked with, and every other layer as it was; run alone, that layer
\* and that pose are the active ones and the image shows the active background.
C10_BackgroundResetsPoses ==
    [][\A i \in 1..MaxInFlight :
         /\ BackgroundChangeDone(i, TRUE) =>
               LET idx == inflight[i].at.currentOutfitIndex
               IN  /\ PoseImagesAt(outfitHistory', idx) =
                        <<PoseEntry(inflight[i].at.currentPoseIndex, inflight[i].img)>>
                   /\ \A k \in DOMAIN outfitHistory :
                        k # idx + 1 => outfitHistory'[k] = outfitHistory[k]
         /\ (BackgroundChangeDone(i, TRUE) /\ RunsAlone(i)) =>
               /\ PoseImagesAt(outfitHistory', currentOutfitIndex') =
                    <<PoseEntry(currentPoseIndex', inflight[i].img)>>
               /\ inflight[i].img.bg = currentBackgroundId'
               /\ LayerAt(outfitHistory', currentOutfitIndex').garment =
                    LayerAt(outfitHistory, currentOutfitIndex).garment
               /\ OtherLayersKept(outfitHistory, outfitHistory', currentOutfitIndex)
               /\ UNCHANGED <<currentOutfitIndex, currentPoseIndex>>]_vars

C10_Witness ==
    /\ last.op = "backgroundOk"
    /\ last.discarded = 2
    /\ Idle
    /\ Len(PoseImagesAt(outfitHistory, currentOutfitIndex)) = 1
    /\ HasPose(PoseImagesAt(outfitHistory, currentOutfitIndex), currentPoseIndex)
    /\ currentBackgroundId # DefaultBackgroundId

\* C11: a changeBackground request shows the new background id while its call
\* is in flight; when the call fails, activeBackgroundId is the value it had
\* when the operation was invoked, an error is surfaced, and the history
\* (every layer's pose map), the cursor and activePoseIndex are untouched.
C11_BackgroundFailureReverts ==
    [][/\ \A b \in Backgrounds :
            (handleBackgroundChange(b) /\ last'.op = "backgroundRequest") =>
               /\ currentBackgroundId' = b
               /\ isLoading'
               /\ Len(inflight') = Len(inflight) + 1
               /\ inflight'[Len(inflight')].at.currentBackgroundId = currentBackgroundId
       /\ \A i \in 1..MaxInFlight :
            BackgroundChangeDone(i, FALSE) =>
               /\ currentBackgroundId' = inflight[i].at.currentBackgroundId
               /\ (RunsAlone(i) => currentBackgroundId' # currentBackgroundId)
               /\ error' = "Failed to change background"
               /\ ~isLoading'
               /\ UNCHANGED <<outfitHistory, currentOutfitIndex, currentPoseIndex>>]_vars

C11_Witness ==
    /\ last.op = "backgroundFailed"
    /\ Idle
    /\ currentBackgroundId # DefaultBackgroundId
    /\ error = "Failed to change background"
    /\ Len(PoseImagesAt(outfitHistory, currentOutfitIndex)) > 1

\* C12: loadSnapshot is all-or-nothing for the history: the request, every
\* render step that is not the last and every failing step (at the first, a
\* middle or the last garment) leave history, cursor and activePoseIndex as
\* they are; only the step that completes the last render commits the rebuilt
\* history, which is the whole rebuilt sequence.
C12_LoadAllOrNothing ==
    [][/\ (\E k \in DOMAIN savedOutfits : handleLoadOutfit(savedOutfits[k])
            /\ last'.op \in {"loadRequest", "loadDeclined", "loadThrew"}) =>
             UNCHANGED <<outfitHistory, currentOutfitIndex, currentPoseIndex>>
       /\ \A i \in 1..MaxInFlight :
            /\ LoadOutfitStep(i, FALSE) =>
                 /\ UNCHANGED <<outfitHistory, currentOutfitIndex, currentPoseIndex>>
                 /\ error' = "Failed to load outfit"
                 /\ ~isLoading'
            /\ (LoadOutfitStep(i, TRUE) /\ last'.op # "loadOk") =>
                 UNCHANGED <<outfitHistory, currentOutfitIndex, currentPoseIndex>>
            /\ (LoadOutfitStep(i, TRUE) /\ last'.op = "loadOk") =>
                 /\ Len(outfitHistory') = Len(inflight[i].garmentsToApply) + 1
                 /\ currentOutfitIndex' = Len(outfitHistory') - 1]_vars

\* a load of two garments failed at its second render, after the user had
\* stepped back one garment
C12_Witness ==
    /\ last.op = "loadFailed"
    /\ last.discarded = 1
    /\ Idle
    /\ error = "Failed to load outfit"
    /\ Len(outfitHistory) = 3
    /\ currentOutfitIndex = 1

\* C13: after a loadSnapshot that fails, activeBackgroundId is the value it
\* had when loadSnapshot was invoked.
C13_LoadFailureRestoresBackground ==
    [][\A i \in 1..MaxInFlight :
         LoadOutfitStep(i, FALSE) =>
            currentBackgroundId' = inflight[i].at.currentBackgroundId]_vars

\* every index 0..cursor of the history holds a layer
LayersToCursorExist ==
    \A k \in 0..currentOutfitIndex : LayerAt(outfitHistory, k) # Hole

\* C14: saveSnapshot in a state with cursor >= 1 whose layers 0..cursor exist
\* stores the garment sequence of those layers, and a fully successful
\* loadSnapshot of a snapshot leaves a history whose garment sequence (images
\* ignored) is the stored sequence, with the cursor on the last layer.
C14_SaveLoadRoundTrip ==
    [][/\ \A stored \in BOOLEAN :
            (/\ handleSaveOutfit(stored)
             /\ last'.op \in {"saved", "saveNotStored"}
             /\ LayersToCursorExist) =>
               /\ currentOutfitIndex >= 1
               /\ savedOutfits'[Len(savedOutfits')].layers =
                    [k \in 1..(currentOutfitIndex + 1) |-> outfitHistory[k].garment]
       /\ \A i \in 1..MaxInFlight :
            (/\ LoadOutfitStep(i, TRUE)
             /\ last'.op = "loadOk"
             /\ \A k \in DOMAIN inflight[i].layers :
                   inflight[i].layers[k] # HoleGarment) =>
               /\ GarmentsOf(outfitHistory') = inflight[i].layers
               /\ currentOutfitIndex' = Len(outfitHistory') - 1]_vars

\* a snapshot of two garments, saved and then loaded to the end
C14_Witness ==
    /\ last.op = "loadOk"
    /\ Idle
    /\ Len(savedOutfits) = 1
    /\ savedOutfits[1].layers = <<NullGarment, 2, 1>>
    /\ GarmentsOf(outfitHistory) = <<NullGarment, 2, 1>>
    /\ currentOutfitIndex = 2

\* history h is a base layer followed by one layer per garment of gs, each
\* holding one image under pose 0 that is the garment rendered, under the
\* default background, onto the image of the layer before it
IsRebuiltFrom(h, gs) ==
    /\ Len(h) = Len(gs) + 1
    /\ \E m \in Models : h[1] = BaseLayer(BaseImage(m))
    /\ \A k \in 1..Len(gs) :
          h[k + 1] = Layer(gs[k],
                           <<PoseEntry(0, generateVirtualTryOnImage(
                                             h[k].poseImages[1].img, gs[k],
                                             DefaultBackgroundId))>>)

\* C15: loadSnapshot sets the default background at its request, whatever
\* background was active; each render that returns adds one layer to the
\* rebuilt sequence and is the input of the next render, one render per
\* non-empty garment; the step that ends the last render leaves the base layer
\* plus n layers with one pose-0 image each, rendered in a chain from the base
\* image under the default background, cursor = n and activePoseIndex = 0, and
\* activeBackgroundId is still the default when nothing else ran in between.
C15_LoadRebuildsSequentially ==
    [][/\ (\E k \in DOMAIN savedOutfits : handleLoadOutfit(savedOutfits[k])
            /\ last'.op = "loadRequest") =>
             /\ currentBackgroundId' = DefaultBackgroundId
             /\ inflight'[Len(inflight')].newHistory = <<BaseLayer(modelImageUrl)>>
             /\ inflight'[Len(inflight')].currentImageUrl = modelImageUrl
       /\ \A i \in 1..MaxInFlight :
            /\ (LoadOutfitStep(i, TRUE) /\ last'.op = "loadStep") =>
                 LET before == inflight[i]
                     after == inflight'[i]
                 IN  /\ Len(after.newHistory) = Len(before.newHistory) + 1
                     /\ Len(after.newHistory) - 1 < Len(before.garmentsToApply)
                     /\ after.currentImageUrl =
                          after.newHistory[Len(after.newHistory)].poseImages[1].img
                     /\ IsRebuiltFrom(after.newHistory,
                                      SubSeq(before.garmentsToApply, 1,
                                             Len(after.newHistory) - 1))
            /\ (LoadOutfitStep(i, TRUE) /\ last'.op = "loadOk") =>
                 /\ IsRebuiltFrom(outfitHistory', inflight[i].garmentsToApply)
                 /\ currentOutfitIndex' = Len(inflight[i].garmentsToApply)
                 /\ currentPoseIndex' = 0
                 /\ ~isLoading'
                 /\ (Len(inflight) = 1 /\ isLoading) =>
                       currentBackgroundId' = DefaultBackgroundId]_vars

\* a snapshot of garments 1 and 2 was rebuilt to the end
C15_Witness ==
    /\ last.op = "loadOk"
    /\ Idle
    /\ IsRebuiltFrom(outfitHistory, <<1, 2>>)
    /\ currentOutfitIndex = 2
    /\ currentPoseIndex = 0
    /\ currentBackgroundId = DefaultBackgroundId

\* C16: saveSnapshot creates a snapshot only with cursor >= 1 and a display
\* image; with cursor = 0 it is declined and the saved collection and the
\* store are unchanged.  A created snapshot holds the garments of layers 0
\* through cursor, never a layer beyond the cursor, and the display image as
\* thumbnail.  saveSnapshot never changes history, cursor, pose or background.
C16_SaveSnapshotContract ==
    [][\A stored \in BOOLEAN :
         handleSaveOutfit(stored) =>
            /\ UNCHANGED <<outfitHistory, currentOutfitIndex, currentPoseIndex,
                           currentBackgroundId, isLoading, inflight>>
            /\ currentOutfitIndex = 0 =>
                  /\ last'.op = "saveDeclined"
                  /\ UNCHANGED <<savedOutfits, localStorage>>
            /\ savedOutfits' # savedOutfits =>
                  LET new == savedOutfits'[Len(savedOutfits')]
                  IN  /\ currentOutfitIndex >= 1
                      /\ displayImageUrl # NoImage
                      /\ Len(savedOutfits') = Len(savedOutfits) + 1
                      /\ SubSeq(savedOutfits', 1, Len(savedOutfits)) = savedOutfits
                      /\ Len(new.layers) >= 2
                      /\ Len(new.layers) <= currentOutfitIndex + 1
                      /\ \A k \in DOMAIN new.layers :
                            new.layers[k] = outfitHistory[k].garment
                      /\ new.thumbnailUrl = displayImageUrl]_vars

\* a snapshot was taken while the history held a layer beyond the cursor
C16_Witness ==
    /\ last.op = "saved"
    /\ Len(savedOutfits) = 1
    /\ Len(outfitHistory) = 3
    /\ currentOutfitIndex = 1
    /\ savedOutfits[1].layers = <<NullGarment, outfitHistory[2].garment>>
    /\ savedOutfits[1].thumbnailUrl = displayImageUrl
    /\ localStorage = savedOutfits

\* C17: when the store write of saveSnapshot fails, the saved-outfit
\* collection is the one from before the call (the snapshot that was not
\* persisted is not in it) and an error is surfaced.
C17_StorageFailureRollsBack ==
    [][(handleSaveOutfit(FALSE) /\ last'.op = "saveNotStored") =>
          /\ savedOutfits' = savedOutfits
          /\ error' = "Could not save outfit. Storage might be full."]_vars

\* C18: the busy flag is never set in a state where no service call is in
\* flight, and, every awaited service call eventually returning, every state
\* with the busy flag set is followed by a state with the busy flag clear.
C18_BusyFlagIsCleared ==
    /\ [](isLoading => Len(inflight) > 0)
    /\ (isLoading ~> ~isLoading)

\* the busy flag was cleared by a call that failed, after an earlier call that
\* succeeded
C18_Witness ==
    /\ last.op \in {"garmentFailed", "poseFailed", "backgroundFailed", "loadFailed"}
    /\ ~isLoading
    /\ Len(inflight) = 0
    /\ calls >= 2

\* C19: right after every initialize(baseImage) the history is the single
\* layer {garment: none, poseImages: {pose[0]: baseImage}}, cursor = 0 and
\* activePoseIndex = 0.
C19_InitializeResets ==
    last.op = "initialize" =>
        /\ outfitHistory = <<BaseLayer(modelImageUrl)>>
        /\ currentOutfitIndex = 0
        /\ currentPoseIndex = 0

\* C20: when removeLastGarment stepped the cursor back while the call of an
\* applyGarment slow path was in flight (and nothing else ran) and the call
\* succeeds, the cursor is the last index of the history, the index of the
\* appended layer, and the active layer's garment is the garment applied.
C20_RemoveDuringApply ==
    [][\A i \in 1..MaxInFlight :
         (/\ GarmentSelectDone(i, TRUE)
          /\ Len(inflight) = 1
          /\ isLoading
          /\ currentOutfitIndex < inflight[i].at.currentOutfitIndex) =>
            /\ currentOutfitIndex' = Len(outfitHistory') - 1
            /\ LayerAt(outfitHistory', currentOutfitIndex').garment =
                 inflight[i].garment]_vars

\* C21: a service call that was in flight when Start Over ran belongs to the
\* session Start Over ended.  When it returns in the state Start Over left, or
\* in the state the following initialize left, with a result or an exception,
\* history, cursor, activePoseIndex, activeBackgroundId and the busy flag stay
\* as they are.
C21_StartOverIsolatesSessions ==
    [][(last.op \in {"startOver", "initialize"} /\ ServiceReturns) =>
          UNCHANGED <<outfitHistory, currentOutfitIndex, currentPoseIndex,
                      currentBackgroundId, isLoading>>]_vars

\* C22: whenever no operation is in flight and the history is non-empty, the
\* active layer's pose map has an entry for the active pose, so the display
\* image is the image rendered for the active pose; stated for the idle states
\* that a redo (the fast path of applyGarment) leaves.
C22_ActivePoseIsCached ==
    (Idle /\ Len(outfitHistory) > 0 /\ last.op = "garmentRedo") =>
        /\ HasPose(PoseImagesAt(outfitHistory, currentOutfitIndex), currentPoseIndex)
        /\ displayImageUrl =
             PoseImage(PoseImagesAt(outfitHistory, currentOutfitIndex), currentPoseIndex)

\* C23: whenever no operation is in flight, every image cached in the active
\* layer's pose map, hence the display image, was rendered under the
\* background that activeBackgroundId names (the base model image counts as
\* rendered under the default background); stated for the idle states that
\* removeLastGarment leaves.
C23_ImagesShowActiveBackground ==
    (Idle /\ Len(outfitHistory) > 0 /\ last.op = "remove") =>
        LET poseImages == PoseImagesAt(outfitHistory, currentOutfitIndex)
        IN  /\ \A k \in DOMAIN poseImages : poseImages[k].img.bg = currentBackgroundId
            /\ displayImageUrl.bg = currentBackgroundId
====
